---- MODULE Spec2Model ----
(***************************************************************************)
(* State machine of src/App.tsx: the App component's React state, the      *)
(* credential gate (checkApiKey / handleSelectKey), input capture and the  *)
(* asynchronous generateAnimation job (submit, poll loop, download).       *)
(*                                                                         *)
(* Every action is one synchronous segment of a handler: the code between  *)
(* two awaits runs to completion on the single JavaScript thread.          *)
(* Nullable values (string | null) are modelled as sets: {} is null and    *)
(* {v} is the value v.  Error messages are sequences of words so that      *)
(* String.includes is a real substring test.  The handlers that can run    *)
(* any number of times at once without a job (FileReader loads, pending    *)
(* openSelectKey dialogs) are counted as none / some.                      *)
(***************************************************************************)
EXTENDS Integers, Sequences, FiniteSets, TLC

VARIABLES
  hasApiKey,          \* useState<boolean>(false)
  selectedImage,      \* useState<string | null>(null)
  prompt,             \* useState('')
  aspectRatio,        \* useState('9:16')
  isGenerating,       \* useState(false)
  loadingStep,        \* useState('')
  generatedVideoUrl,  \* useState<string | null>(null)
  error,              \* useState<string | null>(null)
  keyCheck,           \* the on-load checkApiKey(): "pending", "resolved" or "rejected"
  selecting,          \* some handleSelectKey run is awaiting openSelectKey()
  reading,            \* some FileReader load is in flight
  jobs,               \* generateAnimation runs that have not reached the end of finally
  trace,              \* history: displayed job states since the last call of generateAnimation
  calls,              \* history: external calls / returns of the last call
  phrases,            \* history: poll-loop phrases shown by the last call
  reports,            \* history: operation handles returned to the last call
  caught              \* history: the error caught by the last call, {} if none

vars == <<hasApiKey, selectedImage, prompt, aspectRatio, isGenerating,
          loadingStep, generatedVideoUrl, error, keyCheck, selecting,
          reading, jobs, trace, calls, phrases, reports, caught>>

inputVars == <<selectedImage, prompt, aspectRatio>>
gateVars == <<hasApiKey, keyCheck, selecting>>
jobVars == <<isGenerating, loadingStep, generatedVideoUrl, error, jobs,
             trace, calls, phrases, reports, caught>>

----------------------------------------------------------------------------
(* Bounds of the model *)

\* not-done reports the service may give to one job
MaxPolls == 6

----------------------------------------------------------------------------
(* Values *)

Null == {}
Some(v) == {v}
Val(o) == CHOOSE v \in o : TRUE

\* data URLs produced by FileReader.readAsDataURL
DataUrls == {[mime |-> "image/png", data |-> "AAAA"]}

\* reader.result when a load ends: the data URL, or null on a read error
ReadResults == {Some(u) : u \in DataUrls} \cup {Null}

ASPECT_RATIOS == <<"9:16", "16:9">>

PRESET_POSITIONS == <<"Walking confidently through a modern office, waving at colleagues">>

\* texts the prompt textarea takes in the model
Prompts == {"", PRESET_POSITIONS[1]}

API_KEY == "API_KEY"

\* locations the service may return for a generated video; "" is a missing uri
Uris == {"https://video/1", "https://video/2"}

NotDoneOperation == [done |-> FALSE, videos |-> <<>>]

\* operation handles the service can return: pending, or done with the
\* list response.generatedVideos (each entry is video.uri, "" when absent)
Operations ==
  {NotDoneOperation} \cup
  {[done |-> TRUE, videos |-> v] :
      v \in {<<>>, <<"">>, <<"https://video/1">>,
             <<"https://video/1", "https://video/2">>}}

Signature == <<"Requested", "entity", "was", "not", "found">>

KeyMessage == <<"API Key session expired or invalid.", "Please select a paid project key.">>

FallbackMessage == <<"An error occurred during generation.", "Please try again.">>

NoVideoMessage == <<"No", "video", "was", "generated", "in", "the", "response.">>

\* messages of the errors the external calls may raise
Messages == {<<"404:">> \o Signature \o <<"(NOT_FOUND)">>,
             <<"entity", "was", "not", "found">>,
             <<>>}

\* what a rejected call throws: an Error with a message, or a value without one
Errors == {[message |-> Some(m)] : m \in Messages} \cup {[message |-> Null]}

loadingMessages ==
  <<"Analyzing avatar features...",
    "Simulating physics and movement...",
    "Rendering commercial lighting...",
    "Finalizing high-quality motion...",
    "Almost there, polishing textures...">>

InitializingStep == "Initializing AI engine..."
UploadingStep == "Uploading reference frame to Veo..."
DownloadingStep == "Downloading final commercial asset..."

----------------------------------------------------------------------------
(* Pure helpers *)

Range(s) == {s[i] : i \in DOMAIN s}

RemoveAt(s, i) == SubSeq(s, 1, i - 1) \o SubSeq(s, i + 1, Len(s))

\* String.prototype.includes on word sequences
Includes(text, part) ==
  \E i \in 1..(Len(text) - Len(part) + 1) :
      SubSeq(text, i, i + Len(part) - 1) = part

IncludesAnyWord(text, part) == \E i \in DOMAIN text : text[i] \in Range(part)

IsNotFoundLoose(err) ==
  /\ err.message # Null
  /\ IncludesAnyWord(Val(err.message), <<"not", "found">>)

\* err.message?.includes("Requested entity was not found")
IsNotFound(err) ==
  /\ err.message # Null
  /\ Includes(Val(err.message), Signature)

\* err.message || "An error occurred during generation. Please try again."
ErrorText(err) ==
  IF err.message # Null /\ Val(err.message) # <<>>
    THEN Val(err.message)
    ELSE FallbackMessage

ClampedMessage(idx) ==
  loadingMessages[IF idx < Len(loadingMessages) THEN idx + 1 ELSE Len(loadingMessages)]

MixedMessage(idx) ==
  IF idx % 2 = 0 THEN loadingMessages[(idx % Len(loadingMessages)) + 1] ELSE UploadingStep

\* loadingMessages[messageIndex % loadingMessages.length]
LoadingMessage(idx) == loadingMessages[(idx % Len(loadingMessages)) + 1]

AnyVideoEntry(op) == Len(op.videos) >= 1

\* operation.response?.generatedVideos?.[0]?.video?.uri is truthy
HasVideoUri(op) == Len(op.videos) >= 1 /\ op.videos[1] # ""

\* operation.response.generatedVideos[0].video.uri
DownloadLink(op) == op.videos[1]

\* `${downloadLink}&key=${process.env.API_KEY}`
FetchUrl(link) == <<link, "&key=", API_KEY>>

\* the body the network serves for a fetched URL
ResponseBlob(url) == [type |-> "video/mp4", from |-> url[1]]

\* URL.createObjectURL(blob)
CreateObjectURL(blob) == [scheme |-> "blob:", blob |-> blob]

RequestPromptAsTyped(p) == <<"Animate this character: ", p>>

\* `Animate this character: ${prompt || "Natural movement ..."}`
RequestPrompt(p) ==
  <<"Animate this character: ",
    IF p # "" THEN p ELSE "Natural movement in high quality commercial lighting">>

\* selectedImage.split(',')[1] and selectedImage.split(';')[0].split(':')[1]
RequestImage(img) == [imageBytes |-> img.data, mimeType |-> img.mime]

\* The job state the screen displays (spec section 4.3), read off the render:
\* the progress overlay with loadingStep while isGenerating, else the error
\* box, else the result player, else the empty / ready preview.
JobStatus(gen, step, url, err) ==
  IF gen
    THEN IF step \in {InitializingStep, UploadingStep} THEN "Submitting"
         ELSE IF step \in Range(loadingMessages) THEN "Polling"
         ELSE IF step = DownloadingStep THEN "Downloading"
         ELSE "Unknown"
    ELSE IF err # Null THEN "Failed"
         ELSE IF url # Null THEN "Done"
         ELSE "Idle"

jobStatus == JobStatus(isGenerating, loadingStep, generatedVideoUrl, error)

screenWithoutGate == "main"

\* if (!hasApiKey) return <gate screen>
screen == IF hasApiKey THEN "main" ELSE "gate"

\* {error && <div>{error}</div>} of the main screen
errorShown == screen = "main" /\ error # Null

GenerateDisabledNoBusy == selectedImage = Null

\* disabled={!selectedImage || isGenerating}
GenerateDisabled == selectedImage = Null \/ isGenerating

Track(t, s) == IF t # <<>> /\ t[Len(t)] = s THEN t ELSE Append(t, s)

\* the four display fields after a segment, and the displayed-state history
Show(gen, step, url, err) ==
  /\ isGenerating' = gen
  /\ loadingStep' = step
  /\ generatedVideoUrl' = url
  /\ error' = err
  /\ trace' = Track(trace, JobStatus(gen, step, url, err))

----------------------------------------------------------------------------
Init ==
  /\ hasApiKey = FALSE
  /\ selectedImage = Null
  /\ prompt = ""
  /\ aspectRatio = "9:16"
  /\ isGenerating = FALSE
  /\ loadingStep = ""
  /\ generatedVideoUrl = Null
  /\ error = Null
  /\ keyCheck = "pending"
  /\ selecting = FALSE
  /\ reading = FALSE
  /\ jobs = <<>>
  /\ trace = <<>>
  /\ calls = <<>>
  /\ phrases = <<>>
  /\ reports = <<>>
  /\ caught = Null

----------------------------------------------------------------------------
(* Credential gate *)

\* const selected = await window.aistudio.hasSelectedApiKey(); setHasApiKey(selected)
CheckApiKeyReturn(selected) ==
  /\ keyCheck = "pending"
  /\ keyCheck' = "resolved"
  /\ hasApiKey' = selected
  /\ UNCHANGED <<selecting, reading>>
  /\ UNCHANGED inputVars
  /\ UNCHANGED jobVars

CheckApiKeyThrowsClosesGate ==
  /\ keyCheck = "pending"
  /\ keyCheck' = "rejected"
  /\ hasApiKey' = FALSE
  /\ UNCHANGED <<selecting, reading>>
  /\ UNCHANGED inputVars
  /\ UNCHANGED jobVars

\* hasSelectedApiKey() rejected: catch (e) { console.error(...) }
CheckApiKeyThrows ==
  /\ keyCheck = "pending"
  /\ keyCheck' = "rejected"
  /\ UNCHANGED <<hasApiKey, selecting, reading>>
  /\ UNCHANGED inputVars
  /\ UNCHANGED jobVars

\* click on "Select API Key & Start": await window.aistudio.openSelectKey()
HandleSelectKey ==
  /\ screen = "gate"
  /\ selecting' = TRUE
  /\ UNCHANGED <<hasApiKey, keyCheck, reading>>
  /\ UNCHANGED inputVars
  /\ UNCHANGED jobVars

\* openSelectKey() resolved: setHasApiKey(true); more = other runs are still waiting
SelectKeyReturn(more) ==
  /\ selecting
  /\ selecting' = more
  /\ hasApiKey' = TRUE
  /\ UNCHANGED <<keyCheck, reading>>
  /\ UNCHANGED inputVars
  /\ UNCHANGED jobVars

\* openSelectKey() rejected: handleSelectKey has no catch, nothing is set
SelectKeyThrows(more) ==
  /\ selecting
  /\ selecting' = more
  /\ UNCHANGED <<hasApiKey, keyCheck, reading>>
  /\ UNCHANGED inputVars
  /\ UNCHANGED jobVars

----------------------------------------------------------------------------
(* Input capture (main screen only) *)

\* handleImageUpload: reader.readAsDataURL(file)
HandleImageUpload ==
  /\ screen = "main"
  /\ reading' = TRUE
  /\ UNCHANGED inputVars
  /\ UNCHANGED gateVars
  /\ UNCHANGED jobVars

\* reader.onloadend = () => setSelectedImage(reader.result as string);
\* more = other loads are still in flight
ReaderLoadEnd(result, more) ==
  /\ reading
  /\ selectedImage' = result
  /\ reading' = more
  /\ UNCHANGED <<prompt, aspectRatio>>
  /\ UNCHANGED gateVars
  /\ UNCHANGED jobVars

\* textarea onChange / preset button: setPrompt(...)
SetPrompt(p) ==
  /\ screen = "main"
  /\ prompt # p
  /\ prompt' = p
  /\ UNCHANGED <<selectedImage, aspectRatio, reading>>
  /\ UNCHANGED gateVars
  /\ UNCHANGED jobVars

\* format button: setAspectRatio(ar.value)
SetAspectRatio(a) ==
  /\ screen = "main"
  /\ aspectRatio # a
  /\ aspectRatio' = a
  /\ UNCHANGED <<selectedImage, prompt, reading>>
  /\ UNCHANGED gateVars
  /\ UNCHANGED jobVars

\* "New Session": window.location.reload() destroys the session
Reload ==
  /\ screen = "main"
  /\ hasApiKey' = FALSE
  /\ selectedImage' = Null
  /\ prompt' = ""
  /\ aspectRatio' = "9:16"
  /\ isGenerating' = FALSE
  /\ loadingStep' = ""
  /\ generatedVideoUrl' = Null
  /\ error' = Null
  /\ keyCheck' = "pending"
  /\ selecting' = FALSE
  /\ reading' = FALSE
  /\ jobs' = <<>>
  /\ trace' = <<>>
  /\ calls' = <<>>
  /\ phrases' = <<>>
  /\ reports' = <<>>
  /\ caught' = Null

----------------------------------------------------------------------------
(* Job orchestrator: generateAnimation *)

SetJobRereadingInputs(i, pcNew, op, idx, link) ==
  [jobs EXCEPT ![i] = [@ EXCEPT !.pc = pcNew, !.operation = op,
                                !.messageIndex = idx, !.downloadLink = link,
                                !.request.prompt = RequestPrompt(prompt),
                                !.request.aspectRatio = aspectRatio]]

SetJob(i, pcNew, op, idx, link) ==
  [jobs EXCEPT ![i] = [@ EXCEPT !.pc = pcNew, !.operation = op,
                                !.messageIndex = idx, !.downloadLink = link]]

CatchAndRetry(i, err, ev) ==
  /\ hasApiKey' = IF IsNotFound(err) THEN FALSE ELSE hasApiKey
  /\ Show(TRUE, UploadingStep, generatedVideoUrl,
          Some(IF IsNotFound(err) THEN KeyMessage ELSE ErrorText(err)))
  /\ jobs' = SetJob(i, "generateVideos", NotDoneOperation, 0, "")
  /\ calls' = calls \o <<ev, "generateVideos">>
  /\ caught' = Some(err)
  /\ UNCHANGED phrases

CatchAndSwallow(i, err, ev) ==
  /\ hasApiKey' = IF IsNotFound(err) THEN FALSE ELSE hasApiKey
  /\ Show(FALSE, "", generatedVideoUrl, error)
  /\ jobs' = RemoveAt(jobs, i)
  /\ calls' = Append(calls, ev)
  /\ caught' = Some(err)
  /\ UNCHANGED phrases

\* catch (err) { ... } finally { setIsGenerating(false); setLoadingStep('') }
\* entered by job i with the thrown value err; ev is the event that raised it
Catch(i, err, ev) ==
  /\ hasApiKey' = IF IsNotFound(err) THEN FALSE ELSE hasApiKey
  /\ Show(FALSE, "", generatedVideoUrl,
          Some(IF IsNotFound(err) THEN KeyMessage ELSE ErrorText(err)))
  /\ jobs' = RemoveAt(jobs, i)
  /\ calls' = Append(calls, ev)
  /\ caught' = Some(err)
  /\ UNCHANGED phrases

ContinueNoDelay(i, op) ==
  /\ Show(TRUE, LoadingMessage(jobs[i].messageIndex), generatedVideoUrl, error)
  /\ jobs' = SetJob(i, "getVideosOperation", op, jobs[i].messageIndex + 1, "")
  /\ phrases' = Append(phrases, LoadingMessage(jobs[i].messageIndex))
  /\ calls' = calls \o <<"return", "getVideosOperation">>
  /\ reports' = Append(reports, op)
  /\ UNCHANGED <<hasApiKey, caught>>

\* loop body up to its first await: setLoadingStep(loadingMessages[messageIndex % 5]);
\* messageIndex++; await new Promise(resolve => setTimeout(resolve, 10000))
Continue(i, op) ==
  /\ Show(TRUE, LoadingMessage(jobs[i].messageIndex), generatedVideoUrl, error)
  /\ jobs' = SetJob(i, "setTimeout", op, jobs[i].messageIndex + 1, "")
  /\ phrases' = Append(phrases, LoadingMessage(jobs[i].messageIndex))
  /\ calls' = calls \o <<"return", "setTimeout">>
  /\ reports' = Append(reports, op)
  /\ UNCHANGED <<hasApiKey, caught>>

\* after the loop: if (uri) { setLoadingStep('Downloading ...'); await fetch(...) }
\* else throw new Error("No video was generated in the response.")
Complete(i, op) ==
  /\ reports' = Append(reports, op)
  /\ IF HasVideoUri(op)
       THEN /\ Show(TRUE, DownloadingStep, generatedVideoUrl, error)
            /\ jobs' = SetJob(i, "fetch", op, jobs[i].messageIndex, DownloadLink(op))
            /\ calls' = calls \o <<"return", "fetch">>
            /\ UNCHANGED <<hasApiKey, caught, phrases>>
       ELSE Catch(i, [message |-> Some(NoVideoMessage)], "return")

WhileCheckIgnoresDone(i, op) ==
  IF ~op.done \/ jobs[i].messageIndex = 0 THEN Continue(i, op) ELSE Complete(i, op)

WhileCheckCapped(i, op) ==
  IF ~op.done /\ jobs[i].messageIndex < 2 THEN Continue(i, op) ELSE Complete(i, op)

\* while (!operation.done) { ... }
WhileCheck(i, op) ==
  IF ~op.done THEN Continue(i, op) ELSE Complete(i, op)

EarlyReturnAfterReset ==
  /\ isGenerating' = TRUE
  /\ error' = Null
  /\ loadingStep' = InitializingStep
  /\ trace' = <<jobStatus>>
  /\ calls' = <<>>
  /\ phrases' = <<>>
  /\ reports' = <<>>
  /\ caught' = Null
  /\ UNCHANGED <<generatedVideoUrl, jobs, reading>>
  /\ UNCHANGED inputVars
  /\ UNCHANGED gateVars

\* if (!selectedImage) return;  -- nothing is set and no call is issued
EarlyReturn ==
  /\ trace' = <<jobStatus>>
  /\ calls' = <<>>
  /\ phrases' = <<>>
  /\ reports' = <<>>
  /\ caught' = Null
  /\ UNCHANGED <<isGenerating, loadingStep, generatedVideoUrl, error, jobs, reading>>
  /\ UNCHANGED inputVars
  /\ UNCHANGED gateVars

\* generateAnimation called while no image is set and no job runs (the
\* Generate button is disabled then; only the function's own guard decides)
GenerateAnimationWithoutImage ==
  /\ screen = "main"
  /\ selectedImage = Null
  /\ jobs = <<>>
  /\ EarlyReturn

\* click on Generate: the segment of generateAnimation up to await generateVideos
GenerateAnimation ==
  /\ screen = "main"
  /\ ~GenerateDisabled
  /\ selectedImage # Null
  /\ isGenerating' = TRUE
  /\ error' = Null
  /\ loadingStep' = UploadingStep
  /\ jobs' = Append(jobs,
       [pc |-> "generateVideos", operation |-> NotDoneOperation,
        messageIndex |-> 0, downloadLink |-> "",
        request |-> [prompt |-> RequestPrompt(prompt),
                     image |-> RequestImage(Val(selectedImage)),
                     aspectRatio |-> aspectRatio]])
  /\ trace' = Track(<<jobStatus>>,
                    JobStatus(TRUE, UploadingStep, generatedVideoUrl, Null))
  /\ calls' = <<"generateVideos">>
  /\ phrases' = <<>>
  /\ reports' = <<>>
  /\ caught' = Null
  /\ UNCHANGED <<generatedVideoUrl, reading>>
  /\ UNCHANGED inputVars
  /\ UNCHANGED gateVars

\* the service may report not-done at most MaxPolls times to one job
MayReport(i, op) == op.done \/ jobs[i].messageIndex < MaxPolls

\* let operation = await ai.models.generateVideos({...}) resolved with op
GenerateVideosReturn(i, op) ==
  /\ i \in DOMAIN jobs
  /\ jobs[i].pc = "generateVideos"
  /\ MayReport(i, op)
  /\ WhileCheck(i, op)
  /\ UNCHANGED <<keyCheck, selecting, reading>>
  /\ UNCHANGED inputVars

\* the 10 s timer fired: operation = await ai.operations.getVideosOperation(...)
TimeoutElapsed(i) ==
  /\ i \in DOMAIN jobs
  /\ jobs[i].pc = "setTimeout"
  /\ jobs' = [jobs EXCEPT ![i].pc = "getVideosOperation"]
  /\ calls' = calls \o <<"timeout", "getVideosOperation">>
  /\ UNCHANGED <<isGenerating, loadingStep, generatedVideoUrl, error, trace,
                 phrases, reports, caught, reading>>
  /\ UNCHANGED inputVars
  /\ UNCHANGED gateVars

\* getVideosOperation resolved with op
GetVideosOperationReturn(i, op) ==
  /\ i \in DOMAIN jobs
  /\ jobs[i].pc = "getVideosOperation"
  /\ MayReport(i, op)
  /\ WhileCheck(i, op)
  /\ UNCHANGED <<keyCheck, selecting, reading>>
  /\ UNCHANGED inputVars

\* const response = await fetch(...) resolved: const blob = await response.blob()
FetchReturn(i) ==
  /\ i \in DOMAIN jobs
  /\ jobs[i].pc = "fetch"
  /\ jobs' = [jobs EXCEPT ![i].pc = "blob"]
  /\ calls' = calls \o <<"return", "blob">>
  /\ UNCHANGED <<isGenerating, loadingStep, generatedVideoUrl, error, trace,
                 phrases, reports, caught, reading>>
  /\ UNCHANGED inputVars
  /\ UNCHANGED gateVars

BlobReturnKeepsStep(i) ==
  /\ i \in DOMAIN jobs
  /\ jobs[i].pc = "blob"
  /\ Show(FALSE, loadingStep,
          Some(CreateObjectURL(ResponseBlob(FetchUrl(jobs[i].downloadLink)))),
          error)
  /\ jobs' = RemoveAt(jobs, i)
  /\ calls' = Append(calls, "return")
  /\ UNCHANGED <<phrases, reports, caught, reading>>
  /\ UNCHANGED inputVars
  /\ UNCHANGED gateVars

\* response.blob() resolved: setGeneratedVideoUrl(URL.createObjectURL(blob)); finally
BlobReturn(i) ==
  /\ i \in DOMAIN jobs
  /\ jobs[i].pc = "blob"
  /\ Show(FALSE, "",
          Some(CreateObjectURL(ResponseBlob(FetchUrl(jobs[i].downloadLink)))),
          error)
  /\ jobs' = RemoveAt(jobs, i)
  /\ calls' = Append(calls, "return")
  /\ UNCHANGED <<phrases, reports, caught, reading>>
  /\ UNCHANGED inputVars
  /\ UNCHANGED gateVars

\* an awaited call of job i (submit, status check, fetch, blob) rejected with err
CallThrows(i, err) ==
  /\ i \in DOMAIN jobs
  /\ jobs[i].pc \in {"generateVideos", "getVideosOperation", "fetch", "blob"}
  /\ Catch(i, err, "throw")
  /\ UNCHANGED <<reports, keyCheck, selecting, reading>>
  /\ UNCHANGED inputVars

----------------------------------------------------------------------------
Next ==
  \/ \E selected \in BOOLEAN : CheckApiKeyReturn(selected)
  \/ CheckApiKeyThrows
  \/ HandleSelectKey
  \/ \E more \in BOOLEAN : SelectKeyReturn(more)
  \/ \E more \in BOOLEAN : SelectKeyThrows(more)
  \/ HandleImageUpload
  \/ \E result \in ReadResults, more \in BOOLEAN : ReaderLoadEnd(result, more)
  \/ \E p \in Prompts : SetPrompt(p)
  \/ \E a \in Range(ASPECT_RATIOS) : SetAspectRatio(a)
  \/ Reload
  \/ GenerateAnimation
  \/ GenerateAnimationWithoutImage
  \/ \E i \in DOMAIN jobs, op \in Operations : GenerateVideosReturn(i, op)
  \/ \E i \in DOMAIN jobs : TimeoutElapsed(i)
  \/ \E i \in DOMAIN jobs, op \in Operations : GetVideosOperationReturn(i, op)
  \/ \E i \in DOMAIN jobs : FetchReturn(i)
  \/ \E i \in DOMAIN jobs : BlobReturn(i)
  \/ \E i \in DOMAIN jobs, err \in Errors : CallThrows(i, err)

Spec == Init /\ [][Next]_vars

\* every awaited call eventually settles and every timer eventually fires
Settle ==
  \/ \E i \in DOMAIN jobs : TimeoutElapsed(i)
  \/ \E i \in DOMAIN jobs, op \in Operations : GenerateVideosReturn(i, op)
  \/ \E i \in DOMAIN jobs, op \in Operations : GetVideosOperationReturn(i, op)
  \/ \E i \in DOMAIN jobs : FetchReturn(i)
  \/ \E i \in DOMAIN jobs : BlobReturn(i)
  \/ \E i \in DOMAIN jobs, err \in Errors : CallThrows(i, err)

FairSpec == Spec /\ WF_vars(Settle)

----------------------------------------------------------------------------
(* Properties *)

Last(s) == s[Len(s)]

\* the thrown values whose message contains "Requested entity was not found"
SignatureErrors ==
  {[message |-> Some(<<"404:", "Requested", "entity", "was", "not", "found",
                       "(NOT_FOUND)">>)]}

\* a job has run to the end of finally without entering catch
FinishedOk == jobs = <<>> /\ calls # <<>> /\ caught = Null

\* this step is the catch block of a job
CatchStep == caught = Null /\ caught' # Null

\* this step hands the job one more operation handle
ReportStep == Len(reports') = Len(reports) + 1

Rank(s) ==
  CASE s = "Idle" -> 0
    [] s = "Submitting" -> 1
    [] s = "Polling" -> 2
    [] s = "Downloading" -> 3
    [] s = "Done" -> 4
    [] s = "Failed" -> 5
    [] OTHER -> -1

\* C1: the result asset (generatedVideoUrl) and the error message (error)
\* are never both set.
C1_NeverBoth == ~(generatedVideoUrl # Null /\ error # Null)

\* C2: at most one generateAnimation run is in flight at any time, and a run
\* is in flight exactly while isGenerating (which disables Generate) is true.
C2_OneJobInFlight ==
  /\ Len(jobs) <= 1
  /\ (jobs # <<>>) <=> isGenerating

\* a third generation is polling, after one that succeeded and one that failed
C2_Witness ==
  /\ Len(jobs) = 1
  /\ jobs[1].pc = "getVideosOperation"
  /\ trace[1] = "Failed"
  /\ generatedVideoUrl # Null

\* C3 (as stated): every successful generation shows exactly
\* Idle, Submitting, Polling, Downloading, Done.
C3_Original ==
  FinishedOk => trace = <<"Idle", "Submitting", "Polling", "Downloading", "Done">>

\* C3 (amended): every successful generation starts from the state shown at
\* the click (Idle, or Done / Failed left by an earlier job) and shows
\* Submitting, Polling, Downloading, Done once each in that order, Polling
\* being skipped exactly when the handle returned by submit is already done.
C3_SuccessTrace ==
  FinishedOk =>
    /\ trace[1] \in {"Idle", "Done", "Failed"}
    /\ SubSeq(trace, 2, Len(trace)) =
         IF reports[1].done
           THEN <<"Submitting", "Downloading", "Done">>
           ELSE <<"Submitting", "Polling", "Downloading", "Done">>

\* a successful job whose submit call returned a handle that was already done
C3_Witness ==
  /\ FinishedOk
  /\ reports[1].done
  /\ trace = <<"Idle", "Submitting", "Downloading", "Done">>

\* C4: within one submission the displayed status only moves forward along
\* Submitting, Polling, Downloading, Done (or to Failed); the history is
\* cleared only by a reload.
C4_Monotonic ==
  \A k \in 2..(Len(trace) - 1) :
      /\ Rank(trace[k]) >= 1
      /\ Rank(trace[k]) < Rank(trace[k + 1])

\* a job that polled, started downloading and then failed
C4_Witness ==
  /\ jobs = <<>>
  /\ SubSeq(trace, 2, Len(trace)) = <<"Submitting", "Polling", "Downloading", "Failed">>

\* C5: when a call of the job fails with the not-found signature, hasApiKey
\* becomes false and the re-selection message is set and shown to the user.
C5_NotFoundShown ==
  [][(CatchStep /\ Val(caught') \in SignatureErrors) =>
        (~hasApiKey' /\ error' = Some(KeyMessage) /\ errorShown')]_vars

\* C6: a job failure without the not-found signature sets error to the raw
\* message (the generic fallback when the message is empty or missing) and
\* leaves hasApiKey unchanged.
C6_OtherFailure ==
  [][(CatchStep /\ Val(caught') \notin SignatureErrors) =>
        /\ hasApiKey' = hasApiKey
        /\ error' = Some(IF Val(caught').message \in {Null, Some(<<>>)}
                           THEN FallbackMessage
                           ELSE Val(Val(caught').message))]_vars

\* a call failed with a message that only resembles the signature
C6_Witness ==
  /\ jobs = <<>>
  /\ caught = Some([message |-> Some(<<"entity", "was", "not", "found">>)])
  /\ Last(calls) = "throw"
  /\ hasApiKey
  /\ error = Some(<<"entity", "was", "not", "found">>)

NoUri(op) == \A k \in DOMAIN op.videos : op.videos[k] = ""

\* C7: when the operation completes with no result carrying a URI, the job
\* never enters Downloading, issues no fetch, sets no result asset, ends
\* Failed with the "no video generated" message and leaves hasApiKey alone.
C7_NoVideo ==
  [][(ReportStep /\ Last(reports').done /\ NoUri(Last(reports'))) =>
        /\ Len(jobs') = Len(jobs) - 1
        /\ ~isGenerating'
        /\ jobStatus' = "Failed"
        /\ error' = Some(NoVideoMessage)
        /\ hasApiKey' = hasApiKey
        /\ generatedVideoUrl' = generatedVideoUrl
        /\ "Downloading" \notin Range(trace')
        /\ "fetch" \notin Range(calls')]_vars

\* after two not-done reports the operation completed with a video without uri
C7_Witness ==
  /\ jobs = <<>>
  /\ Len(reports) = 3
  /\ Last(reports) = [done |-> TRUE, videos |-> <<"">>]
  /\ error = Some(NoVideoMessage)
  /\ hasApiKey

InLoop(j) == j.pc \in {"setTimeout", "getVideosOperation"}

\* C8: every status check follows exactly one delay that was started after
\* the previous call returned; the loop goes on exactly until a handle is
\* done or a call throws; no two poll loops run together.
C8_SequentialPolls ==
  /\ \A k \in DOMAIN calls :
        calls[k] = "getVideosOperation" =>
          /\ k >= 5
          /\ calls[k - 1] = "timeout"
          /\ calls[k - 2] = "setTimeout"
          /\ calls[k - 3] = "return"
          /\ calls[k - 4] \in {"generateVideos", "getVideosOperation"}
  /\ \A k \in DOMAIN calls :
        (calls[k] = "setTimeout" /\ k < Len(calls)) => calls[k + 1] = "timeout"
  /\ \A k \in 1..(Len(reports) - 1) : ~reports[k].done
  /\ \A i \in DOMAIN jobs :
        InLoop(jobs[i]) <=> (reports # <<>> /\ ~Last(reports).done)
  /\ (jobs = <<>> /\ calls # <<>>) => (caught # Null \/ Last(reports).done)
  /\ Cardinality({i \in DOMAIN jobs : InLoop(jobs[i])}) <= 1

\* the third status check of a job is outstanding
C8_Witness ==
  /\ Len(jobs) = 1
  /\ jobs[1].pc = "getVideosOperation"
  /\ Len(reports) = 3

FivePhrases ==
  <<"Analyzing avatar features...",
    "Simulating physics and movement...",
    "Rendering commercial lighting...",
    "Finalizing high-quality motion...",
    "Almost there, polishing textures...">>

NotDoneCount == Cardinality({k \in DOMAIN reports : ~reports[k].done})

OneUri(op) == op.done /\ Len(op.videos) = 1 /\ op.videos[1] # ""

\* C9: after k not-done reports followed by a done report with one result
\* URI, exactly k phrases were shown, the i-th (from 0) being phrase i mod 5,
\* none after the Downloading transition, and the asset stored on success is
\* the blob fetched from that URI.
C9_PhrasesAndAsset ==
  /\ Len(phrases) = NotDoneCount
  /\ \A i \in 0..(Len(phrases) - 1) : phrases[i + 1] = FivePhrases[(i % 5) + 1]
  /\ (reports # <<>> /\ OneUri(Last(reports))) =>
        /\ Len(phrases) = Len(reports) - 1
        /\ \A i \in DOMAIN jobs :
              /\ jobs[i].pc \in {"fetch", "blob"}
              /\ jobStatus = "Downloading"
        /\ FinishedOk =>
              /\ generatedVideoUrl # Null
              /\ Val(generatedVideoUrl).scheme = "blob:"
              /\ Val(generatedVideoUrl).blob.from = Last(reports).videos[1]

\* the spec's scenario: three not-done reports, then done with one URI, then success
C9_Witness ==
  /\ FinishedOk
  /\ Len(reports) = 4
  /\ Last(reports) = [done |-> TRUE, videos |-> <<"https://video/1">>]
  /\ phrases = SubSeq(FivePhrases, 1, 3)
  /\ Val(generatedVideoUrl).blob.from = "https://video/1"

\* C10: a not-done report always keeps the job polling, whatever the number
\* of reports so far; and every started job eventually ends Done or Failed
\* with isGenerating false (unless the page is reloaded first).
C10_UnboundedLoop ==
  /\ [][(ReportStep /\ ~Last(reports').done) =>
           /\ Len(jobs') = Len(jobs)
           /\ \A i \in DOMAIN jobs' : jobs'[i].pc = "setTimeout"
           /\ isGenerating'
           /\ jobStatus' = "Polling"]_vars
  /\ isGenerating ~>
       (calls = <<>> \/ (~isGenerating /\ jobStatus \in {"Done", "Failed"}))

\* a job that was still polling after six not-done reports has finished
C10_Witness ==
  /\ jobs = <<>>
  /\ ~isGenerating
  /\ Len(phrases) >= 6
  /\ jobStatus = "Done"

\* this step starts a run of generateAnimation past its image guard
StartStep == Len(jobs') > Len(jobs)

\* C11: every start of a generation job happens in a state where hasApiKey
\* is true (the gate screen offers no Generate action).
C11_StartNeedsKey == [][StartStep => (hasApiKey /\ hasApiKey')]_vars

\* a job was started after an earlier failure, with a key selected
C11_Witness ==
  /\ Len(jobs) = 1
  /\ jobs[1].pc = "generateVideos"
  /\ trace = <<"Failed", "Submitting">>
  /\ hasApiKey

\* this step is the rejection of the on-load hasSelectedApiKey() call
CheckRejectedStep == keyCheck = "pending" /\ keyCheck' = "rejected"

\* C12 (as stated): when the initial check rejects, the credential flag
\* stays false, the gate screen is shown, no error is set and no other
\* session field changes.
C12_Original ==
  [][CheckRejectedStep =>
        /\ ~hasApiKey'
        /\ screen' = "gate"
        /\ UNCHANGED <<selectedImage, prompt, aspectRatio, isGenerating,
                       loadingStep, generatedVideoUrl, error, jobs>>]_vars

\* C12 (amended): when the initial check rejects, the credential flag keeps
\* the value it had (false, and the gate screen shown, unless a key selection
\* completed first), no error is set and no other session field changes.
C12_CheckFailureAbsorbed ==
  [][CheckRejectedStep =>
        /\ hasApiKey' = hasApiKey
        /\ screen' = screen
        /\ (~hasApiKey => screen' = "gate")
        /\ UNCHANGED <<selectedImage, prompt, aspectRatio, isGenerating,
                       loadingStep, generatedVideoUrl, error, jobs>>]_vars

\* the check rejected after the user had already selected a key
C12_Witness ==
  /\ keyCheck = "rejected"
  /\ hasApiKey
  /\ calls = <<>>
  /\ selectedImage = Null

\* this step is a call of generateAnimation that issued no request
NoRequestStep ==
  /\ calls' = <<>>
  /\ Len(trace') = 1
  /\ <<trace', calls'>> # <<trace, calls>>

\* C13: a call of generateAnimation while no image is set sends no request
\* and leaves isGenerating, error, loadingStep, generatedVideoUrl and
\* hasApiKey unchanged.
C13_NoImageNoOp ==
  [][(selectedImage = Null /\ NoRequestStep) =>
        /\ jobs' = jobs
        /\ UNCHANGED <<isGenerating, error, loadingStep, generatedVideoUrl,
                       hasApiKey>>]_vars

\* generateAnimation returned at its image guard after an earlier job had
\* failed and the image had been lost to a failed read
C13_Witness ==
  /\ selectedImage = Null
  /\ calls = <<>>
  /\ trace = <<"Failed">>
  /\ error # Null
  /\ ~isGenerating
  /\ jobs = <<>>

\* C14: after a job has entered its catch block it is over: no further
\* call is issued for it, nothing retries, and the next call log begins only
\* with a Generate click (or a reload).
C14_FailureTerminal ==
  [][caught # Null =>
        /\ jobs = <<>>
        /\ ~isGenerating
        /\ Last(calls) \in {"throw", "return"}
        /\ \/ calls' = calls
           \/ calls' = <<>>
           \/ /\ calls' = <<"generateVideos">>
              /\ hasApiKey
              /\ selectedImage # Null
              /\ Len(jobs') = 1]_vars

\* a job failed at its third status check and nothing followed
C14_Witness ==
  /\ caught # Null
  /\ jobs = <<>>
  /\ Len(reports) = 2
  /\ SubSeq(calls, Len(calls) - 1, Len(calls)) = <<"getVideosOperation", "throw">>

\* C15: once the session shows anything but Idle (a job started, a result or
\* an error is set) no step brings it back to Idle except a reload, and every
\* start of a job leaves Idle.
C15_NoReturnToIdle ==
  [][/\ StartStep => jobStatus' # "Idle"
     /\ jobStatus # "Idle" => (jobStatus' # "Idle" \/ Init')]_vars

\* a job succeeded after an earlier one had failed and the key was re-selected
C15_Witness ==
  /\ jobs = <<>>
  /\ Len(trace) > 1
  /\ trace[1] = "Failed"
  /\ jobStatus = "Done"
  /\ keyCheck # "pending"

C17_FlagStaysTrue ==
  [][(hasApiKey /\ ~hasApiKey') =>
        \/ CatchStep /\ Val(caught') \in SignatureErrors
        \/ Init']_vars

\* C18: loadingStep is non-empty exactly while isGenerating is true, and
\* once no run of generateAnimation is in flight isGenerating is false and
\* loadingStep is empty.
C18_StepIffGenerating ==
  /\ (loadingStep # "") <=> isGenerating
  /\ jobs = <<>> => (~isGenerating /\ loadingStep = "")
  /\ jobs # <<>> => (isGenerating /\ loadingStep # "")

\* a job left through the not-found failure path
C18_Witness ==
  /\ jobs = <<>>
  /\ caught \in {Some(e) : e \in SignatureErrors}
  /\ ~isGenerating
  /\ loadingStep = ""
  /\ ~hasApiKey

\* this step belongs to a run of generateAnimation
JobStep == calls' # calls /\ ~Init'

\* C19: no step of generateAnimation changes selectedImage, prompt or
\* aspectRatio, and the request captured at submission stays the same for
\* the whole job whatever the user changes meanwhile.
C19_InputsUntouched ==
  [][/\ JobStep => UNCHANGED <<selectedImage, prompt, aspectRatio>>
     /\ (jobs # <<>> /\ jobs' # <<>> /\ ~StartStep) =>
           jobs'[1].request = jobs[1].request]_vars

\* a job is at its second status check although the user has since changed
\* the prompt and the format and lost the image
C19_Witness ==
  /\ Len(jobs) = 1
  /\ jobs[1].pc = "getVideosOperation"
  /\ Len(reports) = 2
  /\ selectedImage = Null
  /\ jobs[1].request.prompt[2] # prompt
  /\ prompt # ""
  /\ jobs[1].request.aspectRatio # aspectRatio

====
